---- MODULE Spec2Model ----
(***************************************************************************)
(* Jet pump solver engine of woffl (src/flow/jetflow.py): the stepped      *)
(* throat-entry searches, the secant minimizer over suction pressure, the  *)
(* zero-crossing lookup and the diffuser search.                           *)
(*                                                                         *)
(* Numbers.  The code computes in floating point; the model computes in    *)
(* fixed point over the integers:                                          *)
(*   - pressures are whole psi;                                            *)
(*   - a density rho enters the code only as 1/rho, held here as           *)
(*     RhoScale \div rho (the stub densities divide RhoScale);             *)
(*   - energies are counted in units of 144*32.174/(2*RhoScale) ft2/s2, so *)
(*     that the trapezoid of 1/rho over 144*32.174*p is an integer;        *)
(*   - friction factors are counted in KDen-ths, velocities in the unit    *)
(*     that makes (1+k)*v^2/2 equal to (KDen + k)*v^2 energy units;        *)
(*   - mach numbers are counted in MachDen-ths;                            *)
(*   - a float division is a division rounded down (RDiv);                 *)
(*   - IEEE non-finite results are the three values NaN, PInf, NInf.       *)
(***************************************************************************)
EXTENDS Integers, Sequences, FiniteSets, TLC

(* ------------------------------ bounds --------------------------------- *)
\* highest reservoir pressure tried, psig
MaxPres == 700
\* largest magnitude of a secant guess that is followed further, psig
PsuBound == 900
\* highest productivity index of the inflow stub
MaxPidx == 3
\* highest starting pressure of a directly called throat-entry search, psig
MaxPsu == 400
\* highest throat-mixture pressure of a diffuser call, psig
MaxPtm == 300
\* highest target of the synthetic objective, psig
MaxTarget == 500
\* highest throat-entry pressure of a throat_discharge call, psig
MaxPte == 400
MaxResiduals == 3
\* highest starting pressure of a dete_zero call in field units, psig
MaxFinePsu == 800

(* --------------------------- program constants ------------------------- *)
pdec == 50
psu_diff == 5
TeeIterCap == 10
SeedOffOne == 300
SeedOffTwo == 400
pinc == 100
DiffIterCap == 15
ptm_diff == 5
ThroatIterCap == 10

(* ------------------------------- units --------------------------------- *)
RhoScale == 100
KDen == 2
MachDen == 100
\* momenta are counted in MomDen-ths, so that 1/2 * kth * mom is an integer
MomDen == 4
\* momentum per unit area in one psi (sp.mom_to_psi), on the model's scale
MomPsi == 250
\* one energy unit in ft2/s2, rounded down: 144*32.174/(2*RhoScale)
EnergyUnit == 23
\* the scale of field units: velocities in VelDen-ths of a ft/s, ken in
\* KenDen-ths, areas in AreaDen-ths of a ft2, flows in FlowDen-ths of a ft3/s
VelDen == 10
KenDen == 10
AreaDen == 10000
FlowDen == 1000000
\* energy units in one ft2/s2 on that scale: 2 * KenDen * VelDen^2
FineEnergy == 2000
\* energy units of one psi over one lbm/ft3: 144 * 32.174 * FineEnergy
FinePsi == 9266112
\* one velocity unit of the coarse scale in VelDen-ths of a ft/s:
\* sqrt(4 * 144*32.174/(2*RhoScale)) = 9.6 ft/s
CoarseVel == 96

(* --------------------------- IEEE non-finite --------------------------- *)
NaN == 9999999
PInf == 9999998
NInf == -9999998
IsFinite(x) == x \notin {NaN, PInf, NInf}

(* ------------------------------ helpers -------------------------------- *)
Abs(x) == IF x < 0 THEN -x ELSE x
Last(s) == s[Len(s)]
LastTwo(s) == <<s[Len(s) - 1], s[Len(s)]>>
Flip(s) == [i \in 1..Len(s) |-> s[Len(s) + 1 - i]]

\* float division, rounded down to the fixed-point grid; b # 0
RDiv(a, b) == IF b > 0 THEN a \div b ELSE (-a) \div (-b)

(* ---------------------- collaborators (stubs) -------------------------- *)
\* InFlow.oil_flow(psu, method="pidx"): a productivity-index line through
\* the reservoir pressure, or a fixed rate
oil_flow(i, p) == IF i.kind = "fixed" THEN i.q ELSE RDiv(i.pidx * (i.pres - p), 100)

\* ResMix.condition(p, t): a new conditioned instance; the temperature is
\* the same in every call of a run and is left out
condition(m, p) == [m EXCEPT !.p = p]

\* pressure band of a conditioned mixture relative to its bubble point:
\* 0 at or above it, 1 within 100 psi below it, 2 further below
GasBand(m) == IF m.kind = "liquid" \/ m.p >= m.pb THEN 0
              ELSE IF m.p >= m.pb - 100 THEN 1 ELSE 2

\* ResMix.rho_mix(): mixture density, lbm/ft3; a "foamy" mixture has a
\* density that grows with every 5 psi, between 20 and 60
rho_mix(m) ==
    IF m.kind = "foamy"
    THEN IF m.p < 100 THEN 20 ELSE IF m.p >= 300 THEN 60 ELSE m.p \div 5
    ELSE IF GasBand(m) = 0 THEN 50 ELSE 25

\* ResMix.cmix(): mixture sonic velocity
cmix(m) == IF m.kind = "liquid" THEN 50 ELSE IF GasBand(m) = 0 THEN 20 ELSE 10

\* sum(ResMix.insitu_volm_flow(qoil_std)): total in-situ volumetric flow
insitu_volm_flow(m, qoil) == qoil * (1 + GasBand(m))

\* singlephase.velocity(q, a)
velocity(q, a) == RDiv(q, a)

\* singlephase.momentum(rho, vel, area), in MomDen-ths
momentum(rho, vel, area) == MomDen * rho * vel * vel * area

\* singlephase.massflow(rho, vel, area)
massflow(rho, vel, area) == rho * vel * area

\* singlephase.mom_to_psi(mom, area): a momentum (MomDen-ths) over an area as
\* a pressure, psi
mom_to_psi(mom, area) == RDiv(mom, MomDen * MomPsi * area)

(* --------------------------- numpy / scipy ----------------------------- *)
\* scipy.integrate.trapezoid(y, x), doubled (the half is in the energy unit)
RECURSIVE trapezoid(_, _)
trapezoid(y, x) ==
    IF Len(x) < 2 THEN 0
    ELSE (x[2] - x[1]) * (y[1] + y[2]) + trapezoid(Tail(y), Tail(x))

\* numpy's binary_search_with_guess on a scalar lookup (guess 0); indices
\* are those of the C code (0-based), arr is 1-based
RECURSIVE LinearSearch(_, _, _)
LinearSearch(key, arr, i) ==
    IF i < Len(arr) /\ key >= arr[i + 1] THEN LinearSearch(key, arr, i + 1) ELSE i - 1

RECURSIVE Bisect(_, _, _, _)
Bisect(key, arr, imin, imax) ==
    IF imin < imax
    THEN LET imid == imin + ((imax - imin) \div 2)
         IN  IF key >= arr[imid + 1] THEN Bisect(key, arr, imid + 1, imax)
                                     ELSE Bisect(key, arr, imin, imid)
    ELSE imin - 1

SearchWithGuess(key, arr) ==
    LET len == Len(arr)
        guess == 1
    IN  IF key > arr[len] THEN len
        ELSE IF key < arr[1] THEN -1
        ELSE IF len <= 4 THEN LinearSearch(key, arr, 1)
        ELSE IF key < arr[guess + 1]
             THEN IF key < arr[guess] THEN Bisect(key, arr, 0, guess - 1)
                                      ELSE guess - 1
        ELSE IF key < arr[guess + 2] THEN guess
        ELSE IF key < arr[guess + 3] THEN guess + 1
        ELSE Bisect(key, arr, guess + 2,
                    IF guess < len - 9 /\ key < arr[guess + 9] THEN guess + 8 ELSE len)

\* np.interp(x, xp, fp) for a scalar x and non-empty xp: clamps to the end
\* values of fp outside xp, never reports a missing bracket
Interp(x, xp, fp) ==
    LET len == Len(xp)
        j == SearchWithGuess(x, xp)
    IN  IF len = 1 THEN fp[1]
        ELSE IF j = -1 THEN fp[1]
        ELSE IF j >= len - 1 THEN fp[len]
        ELSE IF xp[j + 1] = x THEN fp[j + 1]
        ELSE fp[j + 1] + RDiv((fp[j + 2] - fp[j + 1]) * (x - xp[j + 1]), xp[j + 2] - xp[j + 1])

\* np.gradient(f, x) on two or more samples of evenly spaced x (the traces
\* are evenly spaced): one-sided at the ends, central inside
Gradient(f, x) ==
    [i \in 1..Len(f) |->
        IF i = 1 THEN RDiv(f[2] - f[1], x[2] - x[1])
        ELSE IF i = Len(f) THEN RDiv(f[i] - f[i - 1], x[i] - x[i - 1])
        ELSE RDiv(f[i + 1] - f[i - 1], x[i + 1] - x[i - 1])]

\* arr[mask]: the elements of arr where mask holds, in order
RECURSIVE Select(_, _)
Select(arr, mask) ==
    IF Len(arr) = 0 THEN <<>>
    ELSE IF mask[1] THEN <<arr[1]>> \o Select(Tail(arr), Tail(mask))
    ELSE Select(Tail(arr), Tail(mask))

(* ---------------------------- pure functions --------------------------- *)
enterance_ke(k, vte) == (KDen + k) * vte * vte

\* variant: the rectangle on the first density instead of the trapezoid
incremental_ee_rect(prs_ray, rho_ray) ==
    (prs_ray[2] - prs_ray[1]) * 2 * (RhoScale \div rho_ray[1])

incremental_ee(prs_ray, rho_ray) ==
    trapezoid([i \in 1..Len(rho_ray) |-> RhoScale \div rho_ray[i]], prs_ray)

tee_positive_slope(pte_ray, tee_ray) ==
    LET dtdp == Gradient(tee_ray, pte_ray)
    IN  [i \in 1..Len(dtdp) |-> dtdp[i] >= 0]

\* the three interpolations of tee_zero on a trace of two or more samples
\* with a non-empty mask
tee_zero(pte_ray, rho_ray, vte_ray, tee_ray) ==
    LET mask == tee_positive_slope(pte_ray, tee_ray)
        xp == Flip(Select(tee_ray, mask))
    IN  [pte |-> Interp(0, xp, Flip(Select(pte_ray, mask))),
         rho_te |-> Interp(0, xp, Flip(Select(rho_ray, mask))),
         vte |-> Interp(0, xp, Flip(Select(vte_ray, mask)))]

\* variant: the step taken from the objective value of the first point
psu_secant_first(psu1, psu2, dete1, dete2) ==
    LET num == dete1 * (psu1 - psu2)
    IN  IF dete1 = dete2
        THEN IF num = 0 THEN NaN ELSE IF num > 0 THEN NInf ELSE PInf
        ELSE psu2 - RDiv(num, dete1 - dete2)

psu_secant(psu1, psu2, dete1, dete2) ==
    LET num == dete2 * (psu1 - psu2)
    IN  IF dete1 = dete2
        THEN IF num = 0 THEN NaN ELSE IF num > 0 THEN NInf ELSE PInf
        ELSE psu2 - RDiv(num, dete1 - dete2)

throat_inlet_momentum(vnz, anz, rho_nz, vte, a_te, rho_te) ==
    [mom_nz |-> momentum(rho_nz, vnz, anz), mom_te |-> momentum(rho_te, vte, a_te)]

\* kth is counted in KDen-ths: 1/2 * kth * mom_tm = kth * mom_tm / (2 * KDen)
throat_outlet_momentum(kth, vtm, a_th, rho_tm) ==
    [mom_tm |-> momentum(rho_tm, vtm, a_th),
     mom_fr |-> RDiv(kth * momentum(rho_tm, vtm, a_th), 2 * KDen)]

\* variant: the friction loss added to the inlet energy
diffuser_ke_plus(k, vtm, vdi) == KDen * vdi * vdi - (KDen + k) * vtm * vtm

diffuser_ke(k, vtm, vdi) == KDen * vdi * vdi - (KDen - k) * vtm * vtm

(* ------------------------------- state --------------------------------- *)
VARIABLES
    call,   \* the function of jetflow.py this run calls
    pc,     \* control point
    ipr,    \* ipr_su: the inflow curve
    prop,   \* prop_su: the fluid mixture handed to the call
    ken,    \* throat entry friction factor
    ate,    \* throat entry area
    psu_in, \* psu argument of a directly called search
    kdi,    \* diffuser friction factor
    ath,    \* throat area
    adi,    \* diffuser area
    qoil_in,\* qoil_std argument of diffuser_discharge
    target, \* zero of the synthetic objective put in the place of tee_last
    thr,    \* arguments of throat_discharge
    well,   \* pwh, ppf_surf, rho_pf and wellprof.jetpump_vd of jetcheck.py
    te,     \* frame of the running throat-entry search
    tm,     \* frame of tee_minimize
    di,     \* frame of diffuser_discharge
    th,     \* frame of throat_discharge
    sv,     \* frame of system_residual and of jetpump_solver
    out,    \* the value the call returned
    err     \* the error the call raised, "" for none

vars == <<call, pc, ipr, prop, ken, ate, psu_in, kdi, ath, adi, qoil_in, target, thr, well, te, tm,
          di, th, sv, out, err>>
inputs == <<call, ipr, prop, ken, ate, psu_in, kdi, ath, adi, qoil_in, target, thr, well>>

NoFrame == [fn |-> "", site |-> "", psu |-> 0, qoil_std |-> 0, prop |-> <<>>,
            pte_ray |-> <<>>, vte_ray |-> <<>>, rho_ray |-> <<>>, mach_ray |-> <<>>,
            kse_ray |-> <<>>, ese_ray |-> <<>>, tee_ray |-> <<>>, tee_fin |-> 0]

\* locals of tee_minimize; assigned is FALSE while qoil_std and the four
\* arrays have not been bound by the loop body
NoMinimize == [psu_list |-> <<>>, tee_list |-> <<>>, n |-> 0, psu_nxt |-> 0,
               assigned |-> FALSE, qoil_std |-> 0, pte_ray |-> <<>>, rho_ray |-> <<>>,
               vte_ray |-> <<>>, tee_ray |-> <<>>]

NoDiffuser == [kdi |-> 0, prop |-> <<>>, vtm |-> 0, pdi_ray |-> <<>>, vdi_ray |-> <<>>,
               rho_ray |-> <<>>, kse_ray |-> <<>>, ese_ray |-> <<>>, dte_ray |-> <<>>, n |-> 0]
KdiSet == {0, 1, 2}

PresSet == {p \in 300..MaxPres : p % 50 = 0 \/ p = 375 \/ p = 430 \/ p = MaxPres}
IprSet == [kind : {"pidx"}, pres : PresSet, pidx : 1..MaxPidx, q : {0}]
              \cup [kind : {"fixed"}, pres : PresSet, pidx : {0}, q : {2, 5, 11}]
PropSet == [kind : {"liquid"}, pb : {0}, p : {0}]
              \cup [kind : {"gassy"}, pb : {150, 250, 400}, p : {0}]
KenSet == {0, 1, 3}
\* pressures a mixture may have been left conditioned at
LeftSet == {0, 450}
\* the mixtures handed to throat_discharge
ThroatPropSet == PropSet \cup [kind : {"foamy"}, pb : {0}, p : {0}]

PsuSet == {p \in -50..MaxPsu : p % 25 = 0 \/ p = MaxPsu}
PtmSet == {p \in 0..MaxPtm : p % 50 = 0 \/ p = MaxPtm}
NoIpr == [kind |-> "fixed", pres |-> 0, pidx |-> 0, q |-> 0]
NoThroatArgs == [pte |-> 0, kth |-> 0, vnz |-> 0, anz |-> 0, rho_nz |-> 0, vte |-> 0,
                 ate |-> 0, rho_te |-> 0]
NoThroat == [mom_nz |-> 0, mom_te |-> 0, ath |-> 0, mtm |-> 0, rho_tm |-> 0, vtm |-> 0,
             ptm_list |-> <<>>, n |-> 0]
PteSet == {p \in 50..MaxPte : p % 50 = 0 \/ p = MaxPte}
ThroatArgSet == [pte : PteSet, kth : {0, 1, 2}, vnz : {10, 20, 30}, anz : {1}, rho_nz : {50},
                 vte : {2, 5, 10}, ate : {1, 2}, rho_te : {25, 50}]
NoWell == [pwh |-> 0, ppf_surf |-> 0, rho_pf |-> 0, jetpump_vd |-> 0]
WellSet == [pwh : {100, 200}, ppf_surf : {3000}, rho_pf : {50, 62}, jetpump_vd : {4000}]
PdiJpSet == {1500, 2500, 3500}
NoSolve == [pni |-> 0, minimized |-> 0, residuals |-> 0, psu_min |-> 0, residual_psu |-> 0,
            pdi_jp |-> 0, qoil_std |-> 0, prop_tm |-> [kind |-> "liquid", pb |-> 0, p |-> 0],
            traverse_qoil |-> 0, traverse_prop |-> [kind |-> "liquid", pb |-> 0, p |-> 0],
            prs_ray |-> <<>>, residual |-> 0, status_te |-> "", status_of |-> "", rawr |-> 0]
TargetSet == {t \in -100..MaxTarget : t % 20 = 0 \/ t % 50 \in {3, 45, 47} \/ t = MaxTarget}

\* a run is one call of tee_minimize, of a throat-entry search or of
\* diffuser_discharge, on inputs of the sets above
InitMinimize ==
    /\ call = "tee_minimize"
    /\ ipr \in IprSet
    /\ prop \in PropSet
    /\ ken \in KenSet
    /\ ate = 1
    /\ psu_in = 0
    /\ kdi = 0 /\ ath = 0 /\ adi = 0 /\ qoil_in = 0
    /\ target = 0
    /\ thr = NoThroatArgs
    /\ well = NoWell

\* tee_minimize with the objective psu - target in the place of tee_last
InitSynthetic ==
    /\ call = "tee_minimize_synthetic"
    /\ ipr \in {i \in IprSet : i.kind = "fixed" /\ i.q = 2}
    /\ prop = [kind |-> "liquid", pb |-> 0, p |-> 0]
    /\ ken = 0 /\ ate = 0 /\ psu_in = 0
    /\ kdi = 0 /\ ath = 0 /\ adi = 0 /\ qoil_in = 0
    /\ target \in TargetSet
    /\ thr = NoThroatArgs
    /\ well = NoWell

\* the mixture of a directly called search arrives conditioned at whatever
\* pressure its last user left it at
InitSearch ==
    /\ call \in {"tee_last", "dete_zero", "dete_grad_zero"}
    /\ ipr \in {i \in IprSet : i.pres = MaxPres}
    /\ prop \in {condition(m, q) : m \in PropSet, q \in LeftSet}
    /\ ken \in KenSet
    /\ ate = 1
    /\ psu_in \in PsuSet
    /\ kdi = 0 /\ ath = 0 /\ adi = 0 /\ qoil_in = 0
    /\ target = 0
    /\ thr = NoThroatArgs
    /\ well = NoWell

InitDiffuser ==
    /\ call = "diffuser_discharge"
    /\ ipr = NoIpr
    /\ prop \in PropSet
    /\ ken = 0 /\ ate = 0 /\ psu_in \in PtmSet
    /\ kdi \in KdiSet
    /\ ath = 1
    /\ adi \in {1, 2, 4}
    /\ qoil_in \in {4, 20, 60}
    /\ target = 0
    /\ thr = NoThroatArgs
    /\ well = NoWell

InitThroat ==
    /\ call = "throat_discharge"
    /\ ipr = NoIpr
    /\ prop \in ThroatPropSet
    /\ ken = 0 /\ ate = 0 /\ psu_in = 0
    /\ kdi = 0 /\ ath = 0 /\ adi = 0 /\ qoil_in = 0
    /\ target = 0
    /\ thr \in ThroatArgSet
    /\ well = NoWell

\* dete_zero on inputs in field units
FinePsuSet == {p \in 0..MaxFinePsu : p % 200 = 0 \/ p = 75 \/ p = MaxFinePsu}
InitFine ==
    /\ call = "dete_zero_fine"
    /\ ipr \in [kind : {"fixed"}, pres : {MaxPres}, pidx : {0}, q : {100, 300, 500}]
    /\ prop \in PropSet
    /\ ken \in {0, 1, 5}
    /\ ate \in {100, 200}
    /\ psu_in \in FinePsuSet
    /\ kdi = 0 /\ ath = 0 /\ adi = 0 /\ qoil_in = 0
    /\ target = 0
    /\ thr = NoThroatArgs
    /\ well = NoWell

\* jetcheck.py: system_residual at a trial suction pressure, or jetpump_solver
InitCheck ==
    /\ \/ call = "system_residual" /\ psu_in \in {p \in PsuSet : p >= 100}
       \/ call = "jetpump_solver" /\ psu_in = 0
    /\ ipr \in {i \in IprSet : i.pres = MaxPres /\ i.pidx = MaxPidx}
    /\ prop \in PropSet
    /\ ken = 0 /\ ate = 1
    /\ kdi = 0 /\ ath = 2 /\ adi = 4 /\ qoil_in = 0
    /\ target = 0
    /\ thr = NoThroatArgs
    /\ well \in WellSet

Init ==
    /\ \/ InitMinimize \/ InitSynthetic \/ InitSearch \/ InitDiffuser \/ InitThroat
       \/ InitFine \/ InitCheck
    /\ sv = NoSolve
    /\ th = NoThroat
    /\ pc = "start"
    /\ te = NoFrame
    /\ tm = NoMinimize
    /\ di = NoDiffuser
    /\ out = <<>>
    /\ err = ""

(* ------------------- tee_last: the stepped search ---------------------- *)
\* lines 183-197: the starting sample
\* variant: the mixture read as the caller left it
search_mixture_stale(m, psu) == m

\* tee_last line 184, dete_zero line 83, dete_grad_zero line 132: the
\* mixture is conditioned at the suction pressure before anything is read
search_mixture(m, psu) == condition(m, psu)

SearchEnter(fn, site, psu) ==
    LET q == oil_flow(ipr, psu)
        m == search_mixture(prop, psu)
        vte == velocity(insitu_volm_flow(m, q), ate)
    IN  [fn |-> fn, site |-> site, psu |-> psu, qoil_std |-> q, prop |-> m,
         pte_ray |-> <<psu>>, vte_ray |-> <<vte>>, rho_ray |-> <<rho_mix(m)>>,
         mach_ray |-> <<RDiv(vte * MachDen, cmix(m))>>,
         kse_ray |-> <<enterance_ke(ken, vte)>>, ese_ray |-> <<0>>,
         tee_ray |-> <<enterance_ke(ken, vte) + 0>>, tee_fin |-> 0]

\* variant: the floor at zero instead of at the decrement
tee_last_guard_zero(f) == Last(f.mach_ray) <= MachDen /\ Last(f.pte_ray) > 0

\* lines 199-201: keep mach under one, and pte above pdec
tee_last_guard(f) == Last(f.mach_ray) <= MachDen /\ Last(f.pte_ray) > pdec

\* variant: the step of the diffuser search (pinc) taken for the decrement
tee_last_body_pinc(f) ==
    LET pte == Last(f.pte_ray) - pinc
        m == condition(f.prop, pte)
        vte == velocity(insitu_volm_flow(m, f.qoil_std), ate)
        pte_ray == Append(f.pte_ray, pte)
        rho_ray == Append(f.rho_ray, rho_mix(m))
        kse_ray == Append(f.kse_ray, enterance_ke(ken, vte))
        ese_ray == Append(f.ese_ray,
                          Last(f.ese_ray) + incremental_ee(LastTwo(pte_ray), LastTwo(rho_ray)))
    IN  [f EXCEPT !.prop = m,
                  !.vte_ray = Append(@, vte),
                  !.mach_ray = Append(@, RDiv(vte * MachDen, cmix(m))),
                  !.pte_ray = pte_ray,
                  !.rho_ray = rho_ray,
                  !.kse_ray = kse_ray,
                  !.ese_ray = ese_ray,
                  !.tee_ray = Append(@, Last(kse_ray) + Last(ese_ray))]

\* lines 202-215: one pass of the loop body
tee_last_body(f) ==
    LET pte == Last(f.pte_ray) - pdec
        m == condition(f.prop, pte)
        vte == velocity(insitu_volm_flow(m, f.qoil_std), ate)
        pte_ray == Append(f.pte_ray, pte)
        rho_ray == Append(f.rho_ray, rho_mix(m))
        kse_ray == Append(f.kse_ray, enterance_ke(ken, vte))
        ese_ray == Append(f.ese_ray,
                          Last(f.ese_ray) + incremental_ee(LastTwo(pte_ray), LastTwo(rho_ray)))
    IN  [f EXCEPT !.prop = m,
                  !.vte_ray = Append(@, vte),
                  !.mach_ray = Append(@, RDiv(vte * MachDen, cmix(m))),
                  !.pte_ray = pte_ray,
                  !.rho_ray = rho_ray,
                  !.kse_ray = kse_ray,
                  !.ese_ray = ese_ray,
                  !.tee_ray = Append(@, Last(kse_ray) + Last(ese_ray))]

TeeLastStep ==
    /\ pc = "search"
    /\ te.fn = "tee_last"
    /\ tee_last_guard(te)
    /\ te' = tee_last_body(te)
    /\ UNCHANGED <<pc, inputs, tm, di, out, err, th, sv>>

\* lines 217-222.  Before the first np.append tee_ray is the 1 x 1 array of
\* line 195, which np.interp rejects as fp ("object too deep"); indexed by
\* [-1] it gives its one row, which computes like the number in it.
\* variant: the first sample returned for the terminal one
tee_last_fin_first(f) ==
    IF Last(f.mach_ray) >= MachDen
    THEN Interp(MachDen, f.mach_ray, f.tee_ray)
    ELSE f.tee_ray[1]

\* lines 217-220
tee_last_fin(f) ==
    IF Last(f.mach_ray) >= MachDen
    THEN Interp(MachDen, f.mach_ray, f.tee_ray)
    ELSE Last(f.tee_ray)

TeeLastFin ==
    /\ pc = "search"
    /\ te.fn = "tee_last"
    /\ ~tee_last_guard(te)
    /\ IF Last(te.mach_ray) >= MachDen /\ Len(te.tee_ray) = 1
       THEN /\ pc' = "raised"
            /\ err' = "ValueError: object too deep for desired array"
            /\ te' = te
       ELSE /\ pc' = "searched"
            /\ err' = err
            /\ te' = [te EXCEPT !.tee_fin = tee_last_fin(te)]
    /\ UNCHANGED <<inputs, tm, di, out, th, sv>>

(* ---------------------------- tee_minimize ----------------------------- *)
\* line 313 and the call of line 316
TmStart ==
    /\ pc = "start"
    /\ call = "tee_minimize"
    /\ tm' = [tm EXCEPT !.psu_list = <<ipr.pres - SeedOffOne, ipr.pres - SeedOffTwo>>]
    /\ te' = SearchEnter("tee_last", "seed0", ipr.pres - SeedOffOne)
    /\ pc' = "search"
    /\ UNCHANGED <<inputs, di, out, err, th, sv>>

\* line 316 returns, line 317 calls
TmSeedZero ==
    /\ pc = "searched"
    /\ te.site = "seed0"
    /\ tm' = [tm EXCEPT !.tee_list = <<te.tee_fin>>]
    /\ te' = SearchEnter("tee_last", "seed1", tm.psu_list[2])
    /\ pc' = "search"
    /\ UNCHANGED <<inputs, di, out, err, th, sv>>

\* line 317 returns; lines 319-320
TmSeedOne ==
    /\ pc = "searched"
    /\ te.site = "seed1"
    /\ tm' = [tm EXCEPT !.tee_list = Append(@, te.tee_fin), !.n = 0]
    /\ pc' = "while"
    /\ UNCHANGED <<inputs, te, di, out, err, th, sv>>

\* variant: the increment of the diffuser search (pinc) taken for the tolerance
tm_guard_pinc(f) == Abs(f.psu_list[Len(f.psu_list) - 1] - Last(f.psu_list)) > pinc

\* variant: the decrement (pdec) taken for the tolerance
tm_guard_pdec(f) == Abs(f.psu_list[Len(f.psu_list) - 1] - Last(f.psu_list)) > pdec

\* line 321
tm_guard(f) == Abs(f.psu_list[Len(f.psu_list) - 1] - Last(f.psu_list)) > psu_diff

\* lines 321-323: the loop test passes, the secant step, the call of tee_last.
\* A non-finite guess ends the run at "nonfinite": what the collaborators do
\* with a non-finite pressure is theirs to say.  A finite guess beyond
\* PsuBound is not followed.
TmSecant ==
    /\ pc = "while"
    /\ tm_guard(tm)
    /\ LET psu_nxt == psu_secant(tm.psu_list[Len(tm.psu_list) - 1], Last(tm.psu_list),
                                 tm.tee_list[Len(tm.tee_list) - 1], Last(tm.tee_list))
       IN  /\ tm' = [tm EXCEPT !.psu_nxt = psu_nxt]
           /\ IF IsFinite(psu_nxt)
              THEN /\ Abs(psu_nxt) <= PsuBound
                   /\ te' = SearchEnter("tee_last", "iter", psu_nxt)
                   /\ pc' = "search"
              ELSE /\ te' = te
                   /\ pc' = "nonfinite"
    /\ UNCHANGED <<inputs, di, out, err, th, sv>>

\* variant: the rate and the arrays bound by the first pass only
tm_iterate_stale(f, t) ==
    [f EXCEPT !.psu_list = Append(@, f.psu_nxt),
              !.tee_list = Append(@, t.tee_fin),
              !.assigned = TRUE,
              !.qoil_std = IF f.assigned THEN @ ELSE t.qoil_std,
              !.pte_ray = IF f.assigned THEN @ ELSE t.pte_ray,
              !.rho_ray = IF f.assigned THEN @ ELSE t.rho_ray,
              !.vte_ray = IF f.assigned THEN @ ELSE t.vte_ray,
              !.tee_ray = IF f.assigned THEN @ ELSE t.tee_ray,
              !.n = @ + 1]

\* lines 323-326: the results of tee_last are bound, the lists grow
tm_iterate(f, t) ==
    [f EXCEPT !.psu_list = Append(@, f.psu_nxt),
              !.tee_list = Append(@, t.tee_fin),
              !.assigned = TRUE,
              !.qoil_std = t.qoil_std,
              !.pte_ray = t.pte_ray,
              !.rho_ray = t.rho_ray,
              !.vte_ray = t.vte_ray,
              !.tee_ray = t.tee_ray,
              !.n = @ + 1]

\* line 323 returns; lines 324-329
TmIterate ==
    /\ pc = "searched"
    /\ te.site = "iter"
    /\ tm' = tm_iterate(tm, te)
    /\ pc' = IF tm.n + 1 = TeeIterCap THEN "lookup" ELSE "while"
    /\ UNCHANGED <<inputs, te, di, out, err, th, sv>>

\* line 321: the loop test fails
TmExit ==
    /\ pc = "while"
    /\ ~tm_guard(tm)
    /\ pc' = "lookup"
    /\ UNCHANGED <<inputs, te, tm, di, out, err, th, sv>>

\* lines 330-331.  np.gradient rejects a trace of fewer than two samples
\* (still the 1 x 1 array of line 195), np.interp an empty selection.
TmLookup ==
    /\ pc = "lookup"
    /\ IF ~tm.assigned
       THEN /\ pc' = "raised" /\ err' = "UnboundLocalError" /\ out' = out
       ELSE IF Len(tm.tee_ray) < 2
       THEN /\ pc' = "raised" /\ err' = "TypeError: invalid number of arguments" /\ out' = out
       ELSE IF \A i \in 1..Len(tm.tee_ray) : ~tee_positive_slope(tm.pte_ray, tm.tee_ray)[i]
       THEN /\ pc' = "raised" /\ err' = "ValueError: array of sample points is empty"
            /\ out' = out
       ELSE LET z == tee_zero(tm.pte_ray, tm.rho_ray, tm.vte_ray, tm.tee_ray)
            IN  /\ out' = [psu |-> Last(tm.psu_list), qoil_std |-> tm.qoil_std,
                           pte |-> z.pte, rho_te |-> z.rho_te, vte |-> z.vte]
                /\ pc' = "done"
                /\ err' = err
    /\ UNCHANGED <<inputs, te, tm, di, th, sv>>

(* ------------- tee_minimize on the synthetic objective ----------------- *)
\* the objective put in the place of tee_last: psu - target
objective(psu) == psu - target

\* what the stand-in returns where tee_last returns tee_fin, the rate and the
\* arrays: the objective value, nothing else
SyntheticReturn(psu) == [NoFrame EXCEPT !.fn = "objective", !.psu = psu, !.tee_fin = objective(psu)]

\* lines 313-320 with the stand-in called at both seeds
SynStart ==
    /\ pc = "start"
    /\ call = "tee_minimize_synthetic"
    /\ tm' = [tm EXCEPT !.psu_list = <<ipr.pres - SeedOffOne, ipr.pres - SeedOffTwo>>,
                        !.tee_list = <<objective(ipr.pres - SeedOffOne),
                                       objective(ipr.pres - SeedOffTwo)>>,
                        !.n = 0]
    /\ pc' = "syn_while"
    /\ UNCHANGED <<inputs, te, di, out, err, th, sv>>

\* lines 321-329: one pass of the loop on the stand-in
SynIterate ==
    /\ pc = "syn_while"
    /\ tm_guard(tm)
    /\ LET psu_nxt == psu_secant(tm.psu_list[Len(tm.psu_list) - 1], Last(tm.psu_list),
                                 tm.tee_list[Len(tm.tee_list) - 1], Last(tm.tee_list))
       IN  IF IsFinite(psu_nxt)
           THEN /\ Abs(psu_nxt) <= PsuBound
                /\ tm' = tm_iterate([tm EXCEPT !.psu_nxt = psu_nxt], SyntheticReturn(psu_nxt))
                /\ pc' = IF tm.n + 1 = TeeIterCap THEN "syn_left" ELSE "syn_while"
           ELSE /\ tm' = [tm EXCEPT !.psu_nxt = psu_nxt]
                /\ pc' = "nonfinite"
    /\ UNCHANGED <<inputs, te, di, out, err, th, sv>>

\* line 321: the loop test fails
SynExit ==
    /\ pc = "syn_while"
    /\ ~tm_guard(tm)
    /\ pc' = "syn_left"
    /\ UNCHANGED <<inputs, te, tm, di, out, err, th, sv>>

(* ------------------ a throat-entry search called directly -------------- *)
\* tee_last lines 183-197, dete_zero 80-88, dete_grad_zero 129-137
SearchStart ==
    /\ pc = "start"
    /\ call \in {"tee_last", "dete_zero", "dete_grad_zero"}
    /\ te' = SearchEnter(call, "direct", psu_in)
    /\ pc' = "search"
    /\ UNCHANGED <<inputs, tm, di, out, err, th, sv>>

\* tee_last line 222
TeeLastReturn ==
    /\ pc = "searched"
    /\ te.fn = "tee_last"
    /\ te.site = "direct"
    /\ out' = [tee_fin |-> te.tee_fin, qoil_std |-> te.qoil_std, pte_ray |-> te.pte_ray,
               rho_ray |-> te.rho_ray, vte_ray |-> te.vte_ray, tee_ray |-> te.tee_ray]
    /\ pc' = "done"
    /\ UNCHANGED <<inputs, te, tm, di, err, th, sv>>

\* ThroatEnteranceBook.append (jetplot.py): the trapezoid increment of the new
\* sample on the prior one, accumulated, and the total energy of the sample
BookAppend(f, pte, vte, rho, c, ke) ==
    LET prs_ray == Append(f.pte_ray, pte)
        rho_ray == Append(f.rho_ray, rho)
        ese == Last(f.ese_ray) + incremental_ee(LastTwo(prs_ray), LastTwo(rho_ray))
    IN  [f EXCEPT !.pte_ray = prs_ray,
                  !.vte_ray = Append(@, vte),
                  !.rho_ray = rho_ray,
                  !.mach_ray = Append(@, RDiv(vte * MachDen, c)),
                  !.kse_ray = Append(@, ke),
                  !.ese_ray = Append(@, ese),
                  !.tee_ray = Append(@, ke + ese)]

\* ThroatEnteranceBook.dete_zero (jetplot.py): the zero crossing of the
\* total energy on the samples of positive slope, NoZeroCrossing without a
\* sign change among them
BookSignChange(f) ==
    LET mask == tee_positive_slope(f.pte_ray, f.tee_ray)
        kept == Select(f.tee_ray, mask)
    IN  /\ \E i \in 1..Len(kept) : kept[i] >= 0
        /\ \E i \in 1..Len(kept) : kept[i] <= 0

BookNoZeroCrossing(f) == Len(f.tee_ray) < 2 \/ ~BookSignChange(f)

BookDeteZero(f) == tee_zero(f.pte_ray, f.rho_ray, f.vte_ray, f.tee_ray)

\* variant: the loop test without the pressure floor
dete_zero_guard_nofloor(f) == Last(f.tee_ray) * EnergyUnit > 1

\* dete_zero line 93: te_book.tde_ray[-1] > 1 (ft2/s2) and prs_ray[-1] > pdec
dete_zero_guard(f) == Last(f.tee_ray) * EnergyUnit > 1 /\ Last(f.pte_ray) > pdec

\* variant: the floor at zero instead of at the decrement
dete_grad_zero_guard_zero(f) == Last(f.mach_ray) <= MachDen /\ Last(f.pte_ray) > 0

\* dete_grad_zero line 140
dete_grad_zero_guard(f) == Last(f.mach_ray) <= MachDen /\ Last(f.pte_ray) > pdec

\* dete_zero lines 94-100, dete_grad_zero lines 142-147
book_body(f) ==
    LET pte == Last(f.pte_ray) - pdec
        m == condition(f.prop, pte)
        vte == velocity(insitu_volm_flow(m, f.qoil_std), ate)
    IN  BookAppend([f EXCEPT !.prop = m], pte, vte, rho_mix(m), cmix(m), enterance_ke(ken, vte))

DeteZeroStep ==
    /\ pc = "search"
    /\ te.fn = "dete_zero"
    /\ dete_zero_guard(te)
    /\ te' = book_body(te)
    /\ UNCHANGED <<pc, inputs, tm, di, out, err, th, sv>>

\* dete_zero lines 102-104
DeteZeroFin ==
    /\ pc = "search"
    /\ te.fn = "dete_zero"
    /\ ~dete_zero_guard(te)
    /\ IF BookNoZeroCrossing(te)
       THEN /\ pc' = "raised" /\ err' = "NoZeroCrossing" /\ out' = out
       ELSE LET z == BookDeteZero(te)
            IN  /\ pc' = "done" /\ err' = err
                /\ out' = [qoil_std |-> te.qoil_std, pte |-> z.pte, rho_te |-> z.rho_te,
                           vte |-> z.vte]
    /\ UNCHANGED <<inputs, te, tm, di, th, sv>>

DeteGradZeroStep ==
    /\ pc = "search"
    /\ te.fn = "dete_grad_zero"
    /\ dete_grad_zero_guard(te)
    /\ te' = book_body(te)
    /\ UNCHANGED <<pc, inputs, tm, di, out, err, th, sv>>

\* dete_grad_zero lines 149-154
DeteGradZeroFin ==
    /\ pc = "search"
    /\ te.fn = "dete_grad_zero"
    /\ ~dete_grad_zero_guard(te)
    /\ LET tde_fin == IF Last(te.mach_ray) >= MachDen
                      THEN Interp(MachDen, te.mach_ray, te.tee_ray)
                      ELSE Last(te.tee_ray)
       IN  /\ te' = [te EXCEPT !.tee_fin = tde_fin]
           /\ out' = [tde_fin |-> tde_fin, qoil_std |-> te.qoil_std]
    /\ pc' = "done"
    /\ UNCHANGED <<inputs, tm, di, err, th, sv>>

(* --------------- dete_zero on the scale of field units ------------------ *)
\* The same function with its inputs in field units: the oil rate in bopd,
\* the area in AreaDen-ths of a ft2, ken in KenDen-ths, velocities in
\* VelDen-ths of a ft/s and energies in FineEnergy-ths of a ft2/s2, so that
\* (1 + ken) * vte^2 / 2 is (KenDen + k) * v^2 energy units.

\* sum(ResMix.insitu_volm_flow(qoil_std)) in FlowDen-ths of a ft3/s:
\* 5.6146 ft3 to the barrel and 86400 s to the day
insitu_volm_flow_fine(m, qoil) == RDiv(qoil * 56146, 864) * (1 + GasBand(m))

\* singlephase.velocity(q, a), q in FlowDen-ths of a ft3/s and a in
\* AreaDen-ths of a ft2, in VelDen-ths of a ft/s
velocity_fine(q, a) == RDiv(q, a * (FlowDen \div (AreaDen * VelDen)))

\* ResMix.cmix() in VelDen-ths of a ft/s
cmix_fine(m) == cmix(m) * CoarseVel

\* enterance_ke, line 31
enterance_ke_fine(k, vte) == (KenDen + k) * vte * vte

\* incremental_ee, line 50: the trapezoid of 1/rho over the two
\* pressures, times 144 * 32.174
incremental_ee_fine(prs_ray, rho_ray) ==
    RDiv((prs_ray[2] - prs_ray[1]) * (RDiv(FinePsi, rho_ray[1]) + RDiv(FinePsi, rho_ray[2])), 2)

\* ThroatEnteranceBook.append (jetplot.py)
BookAppendFine(f, pte, vte, rho, c, ke) ==
    LET prs_ray == Append(f.pte_ray, pte)
        rho_ray == Append(f.rho_ray, rho)
        ese == Last(f.ese_ray) + incremental_ee_fine(LastTwo(prs_ray), LastTwo(rho_ray))
    IN  [f EXCEPT !.pte_ray = prs_ray,
                  !.vte_ray = Append(@, vte),
                  !.rho_ray = rho_ray,
                  !.mach_ray = Append(@, RDiv(vte * MachDen, c)),
                  !.kse_ray = Append(@, ke),
                  !.ese_ray = Append(@, ese),
                  !.tee_ray = Append(@, ke + ese)]

\* dete_zero lines 80-88
DeteZeroFineStart ==
    /\ pc = "start"
    /\ call = "dete_zero_fine"
    /\ LET q == oil_flow(ipr, psu_in)
           m == search_mixture(prop, psu_in)
           vte == velocity_fine(insitu_volm_flow_fine(m, q), ate)
       IN  te' = [fn |-> "dete_zero_fine", site |-> "direct", psu |-> psu_in, qoil_std |-> q,
                  prop |-> m, pte_ray |-> <<psu_in>>, vte_ray |-> <<vte>>,
                  rho_ray |-> <<rho_mix(m)>>,
                  mach_ray |-> <<RDiv(vte * MachDen, cmix_fine(m))>>,
                  kse_ray |-> <<enterance_ke_fine(ken, vte)>>, ese_ray |-> <<0>>,
                  tee_ray |-> <<enterance_ke_fine(ken, vte) + 0>>, tee_fin |-> 0]
    /\ pc' = "search"
    /\ UNCHANGED <<inputs, tm, di, out, err, th, sv>>

\* dete_zero line 93: te_book.tde_ray[-1] > 1 (ft2/s2) and prs_ray[-1] > pdec
dete_zero_fine_guard(f) == Last(f.tee_ray) > FineEnergy /\ Last(f.pte_ray) > pdec

\* dete_zero lines 94-100
DeteZeroFineStep ==
    /\ pc = "search"
    /\ te.fn = "dete_zero_fine"
    /\ dete_zero_fine_guard(te)
    /\ LET pte == Last(te.pte_ray) - pdec
           m == condition(te.prop, pte)
           vte == velocity_fine(insitu_volm_flow_fine(m, te.qoil_std), ate)
       IN  te' = BookAppendFine([te EXCEPT !.prop = m], pte, vte, rho_mix(m), cmix_fine(m),
                                enterance_ke_fine(ken, vte))
    /\ UNCHANGED <<pc, inputs, tm, di, out, err, th, sv>>

\* dete_zero lines 102-104
DeteZeroFineFin ==
    /\ pc = "search"
    /\ te.fn = "dete_zero_fine"
    /\ ~dete_zero_fine_guard(te)
    /\ IF BookNoZeroCrossing(te)
       THEN /\ pc' = "raised" /\ err' = "NoZeroCrossing" /\ out' = out
       ELSE LET z == BookDeteZero(te)
            IN  /\ pc' = "done" /\ err' = err
                /\ out' = [qoil_std |-> te.qoil_std, pte |-> z.pte, rho_te |-> z.rho_te,
                           vte |-> z.vte]
    /\ UNCHANGED <<inputs, te, tm, di, th, sv>>

(* --------------------------- throat_discharge --------------------------- *)
\* lines 459-466 and 474-480: the discharge-pressure estimate with the
\* mixture conditioned at p
throat_estimate(f, p) ==
    LET rho_tm == rho_mix(condition(prop, p))
        vtm == velocity(RDiv(f.mtm, rho_tm), f.ath)
        mo == throat_outlet_momentum(thr.kth, vtm, f.ath, rho_tm)
        mom_tot == mo.mom_fr + mo.mom_tm - f.mom_nz - f.mom_te
        dp_tm == mom_to_psi(mom_tot, f.ath)
    IN  [rho_tm |-> rho_tm, vtm |-> vtm, mom_tot |-> mom_tot, ptm |-> thr.pte - dp_tm]

\* lines 452-470
ThroatStart ==
    /\ pc = "start"
    /\ call = "throat_discharge"
    /\ LET mi == throat_inlet_momentum(thr.vnz, thr.anz, thr.rho_nz, thr.vte, thr.ate, thr.rho_te)
           f == [NoThroat EXCEPT !.mom_nz = mi.mom_nz,
                                 !.mom_te = mi.mom_te,
                                 !.ath = thr.anz + thr.ate,
                                 !.mtm = massflow(thr.rho_nz, thr.vnz, thr.anz)
                                             + massflow(thr.rho_te, thr.vte, thr.ate)]
           e == throat_estimate(f, thr.pte)
       IN  th' = [f EXCEPT !.rho_tm = e.rho_tm, !.vtm = e.vtm,
                           !.ptm_list = <<thr.pte, e.ptm>>, !.n = 0]
    /\ pc' = "throat"
    /\ UNCHANGED <<inputs, te, tm, di, out, err, sv>>

\* variant: the comparison of the loop test turned round
throat_guard_lt(f) == Abs(f.ptm_list[Len(f.ptm_list) - 1] - Last(f.ptm_list)) < ptm_diff

\* variant: the step of the diffuser search (pinc) taken for the tolerance
throat_guard_pinc(f) == Abs(f.ptm_list[Len(f.ptm_list) - 1] - Last(f.ptm_list)) > pinc

\* line 471
throat_guard(f) == Abs(f.ptm_list[Len(f.ptm_list) - 1] - Last(f.ptm_list)) > ptm_diff

\* lines 472-482
throat_body(f) ==
    LET e == throat_estimate(f, Last(f.ptm_list))
    IN  [f EXCEPT !.rho_tm = e.rho_tm, !.vtm = e.vtm,
                  !.ptm_list = Append(@, e.ptm), !.n = @ + 1]

\* lines 471-485: one pass of the loop, leaving it at the cap
ThroatStep ==
    /\ pc = "throat"
    /\ throat_guard(th)
    /\ th' = throat_body(th)
    /\ pc' = IF th.n + 1 = ThroatIterCap THEN "throat_left" ELSE "throat"
    /\ UNCHANGED <<inputs, te, tm, di, out, err, sv>>

\* line 471: the loop test fails
ThroatExit ==
    /\ pc = "throat"
    /\ ~throat_guard(th)
    /\ pc' = "throat_left"
    /\ UNCHANGED <<inputs, te, tm, di, th, out, err, sv>>

\* line 487
ThroatReturn ==
    /\ pc = "throat_left"
    /\ out' = [ptm |-> Last(th.ptm_list)]
    /\ pc' = "done"
    /\ UNCHANGED <<inputs, te, tm, di, th, err, sv>>

(* -------------------------- diffuser_discharge -------------------------- *)
\* lines 549-564 for the friction factor k; psu_in is the argument ptm
diffuser_start(k) ==
    LET m == condition(prop, psu_in)
        qtot == insitu_volm_flow(m, qoil_in)
        vtm == velocity(qtot, ath)
        vdi == velocity(qtot, adi)
    IN  [kdi |-> k, prop |-> m, vtm |-> vtm, pdi_ray |-> <<psu_in>>, vdi_ray |-> <<vdi>>,
         rho_ray |-> <<rho_mix(m)>>, kse_ray |-> <<diffuser_ke(k, vtm, vdi)>>,
         ese_ray |-> <<0>>, dte_ray |-> <<diffuser_ke(k, vtm, vdi) + 0>>, n |-> 0]

DiffuserStart ==
    /\ pc = "start"
    /\ call = "diffuser_discharge"
    /\ di' = diffuser_start(kdi)
    /\ pc' = "diffuse"
    /\ UNCHANGED <<inputs, te, tm, out, err, th, sv>>

\* line 566
diffuser_guard(f) == Last(f.dte_ray) < 0

\* variant: the pass counted once only
diffuser_body_once(f) ==
    LET pdi == Last(f.pdi_ray) + pinc
        m == condition(f.prop, pdi)
        vdi == velocity(insitu_volm_flow(m, qoil_in), adi)
        pdi_ray == Append(f.pdi_ray, pdi)
        rho_ray == Append(f.rho_ray, rho_mix(m))
        kse_ray == Append(f.kse_ray, diffuser_ke(f.kdi, f.vtm, vdi))
        ese_ray == Append(f.ese_ray,
                          Last(f.ese_ray) + incremental_ee(LastTwo(pdi_ray), LastTwo(rho_ray)))
    IN  [f EXCEPT !.prop = m,
                  !.vdi_ray = Append(@, vdi),
                  !.pdi_ray = pdi_ray,
                  !.rho_ray = rho_ray,
                  !.kse_ray = kse_ray,
                  !.ese_ray = ese_ray,
                  !.dte_ray = Append(@, Last(kse_ray) + Last(ese_ray)),
                  !.n = 1]

\* lines 567-581
diffuser_body(f) ==
    LET pdi == Last(f.pdi_ray) + pinc
        m == condition(f.prop, pdi)
        vdi == velocity(insitu_volm_flow(m, qoil_in), adi)
        pdi_ray == Append(f.pdi_ray, pdi)
        rho_ray == Append(f.rho_ray, rho_mix(m))
        kse_ray == Append(f.kse_ray, diffuser_ke(f.kdi, f.vtm, vdi))
        ese_ray == Append(f.ese_ray,
                          Last(f.ese_ray) + incremental_ee(LastTwo(pdi_ray), LastTwo(rho_ray)))
    IN  [f EXCEPT !.prop = m,
                  !.vdi_ray = Append(@, vdi),
                  !.pdi_ray = pdi_ray,
                  !.rho_ray = rho_ray,
                  !.kse_ray = kse_ray,
                  !.ese_ray = ese_ray,
                  !.dte_ray = Append(@, Last(kse_ray) + Last(ese_ray)),
                  !.n = @ + 1]

\* lines 566-584 as a function of the starting frame: the frame the loop
\* leaves behind
RECURSIVE diffuser_run(_)
diffuser_run(f) ==
    IF diffuser_guard(f) /\ f.n < DiffIterCap THEN diffuser_run(diffuser_body(f)) ELSE f

\* variant: the arguments of np.interp swapped
diffuser_resolve_swapped(f) == Interp(0, f.pdi_ray, f.dte_ray)

\* line 587 on a trace of two or more samples
diffuser_resolve(f) == Interp(0, f.dte_ray, f.pdi_ray)

\* lines 566-584: one pass of the loop, leaving it at the cap
DiffuserStep ==
    /\ pc = "diffuse"
    /\ diffuser_guard(di)
    /\ di' = diffuser_body(di)
    /\ pc' = IF di.n + 1 = DiffIterCap THEN "resolve" ELSE "diffuse"
    /\ UNCHANGED <<inputs, te, tm, out, err, th, sv>>

\* line 566: the loop test fails
DiffuserExit ==
    /\ pc = "diffuse"
    /\ ~diffuser_guard(di)
    /\ pc' = "resolve"
    /\ UNCHANGED <<inputs, te, tm, di, out, err, th, sv>>

\* lines 587-588.  Before the first np.append dte_ray is the 1 x 1 array of
\* line 561, which np.interp rejects as xp.
DiffuserResolve ==
    /\ pc = "resolve"
    /\ IF Len(di.dte_ray) = 1
       THEN /\ pc' = "raised" /\ err' = "ValueError: object too deep for desired array"
            /\ out' = out
       ELSE /\ pc' = "done" /\ err' = err
            /\ out' = [vtm |-> di.vtm, pdi |-> diffuser_resolve(di)]
    /\ UNCHANGED <<inputs, te, tm, di, th, sv>>

(* ------------------ jetcheck.py: residual and solver -------------------- *)
\* singlephase.diff_press_static(rho, height): the static head, psi
diff_press_static(rho, height) == RDiv(rho * height, 144)

\* jetflow.psu_minimize as jetcheck.py calls it: the results it can hand
\* back (psu_min, qoil_std, pte, rho_te, vte), the oil rate being the inflow
\* at the minimum suction pressure
psu_minimize(i, m) ==
    {[psu_min |-> p, qoil_std |-> oil_flow(i, p), pte |-> p - pdec, rho_te |-> rho_mix(condition(m, p)),
      vte |-> 0] : p \in {q \in PsuSet : q >= 100}}

\* jetflow.jetpump_overall as jetcheck.py calls it: the results it can hand
\* back (pte, ptm, pdi_jp, qoil_std, prop_tm) at suction pressure psu; the
\* oil rate is the inflow at psu and the throat mixture is the suction
\* mixture with the power fluid mixed in
jetpump_overall(psu, pni, i, m) ==
    [pte : {psu - pdec}, ptm : {psu}, pdi_jp : PdiJpSet, qoil_std : {oil_flow(i, psu)},
     prop_tm : {[m EXCEPT !.p = pni], [kind |-> "foamy", pb |-> 0, p |-> pni]}]

\* outflow.top_down_press(pwh, tsu, qoil_std, prop_tm, wellbore, wellprof):
\* the pressure profile from the wellhead down to the pump, built from the
\* static head of the mixture and a friction term of the rate; the measured
\* depths and the slip holdups it also returns are not read by jetcheck.py
top_down_press(pwh, qoil_std, prop_tm, vd) ==
    LET mid == pwh + diff_press_static(rho_mix(condition(prop_tm, pwh)), vd \div 2) + qoil_std
        bot == mid + diff_press_static(rho_mix(condition(prop_tm, mid)), vd \div 2) + qoil_std
    IN  <<pwh, mid, bot>>

\* system_residual, lines 231-232: with the first element in place of the last
residual_of_head(pdi_jp, prs_ray) == pdi_jp - Head(prs_ray)

\* system_residual, lines 231-232
residual_of(pdi_jp, prs_ray) == pdi_jp - Last(prs_ray)

\* jetpump_solver, line 162: the minimizer is run
SolverMinimize ==
    /\ pc = "start"
    /\ call = "jetpump_solver"
    /\ \E r \in psu_minimize(ipr, prop) :
          sv' = [sv EXCEPT !.minimized = @ + 1, !.psu_min = r.psu_min]
    /\ pc' = "residual"
    /\ UNCHANGED <<inputs, te, tm, di, th, out, err>>

\* system_residual, lines 209-226: the nozzle inlet pressure and the jet-pump
\* model at the suction pressure of the call (the argument of a direct call,
\* psu_min at line 166 of jetpump_solver)
ResidualOverall ==
    /\ \/ call = "system_residual" /\ pc = "start"
       \/ call = "jetpump_solver" /\ pc = "residual"
    /\ sv.residuals < MaxResiduals
    /\ LET psu == IF call = "system_residual" THEN psu_in ELSE sv.psu_min
           pni == well.ppf_surf + diff_press_static(well.rho_pf, well.jetpump_vd)
       IN  \E r \in jetpump_overall(psu, pni, ipr, prop) :
              sv' = [sv EXCEPT !.residuals = @ + 1, !.residual_psu = psu, !.pni = pni,
                               !.pdi_jp = r.pdi_jp, !.qoil_std = r.qoil_std,
                               !.prop_tm = r.prop_tm]
    /\ pc' = "traverse"
    /\ UNCHANGED <<inputs, te, tm, di, th, out, err>>

\* system_residual, lines 229-232: the outflow traverse and the difference;
\* a direct call returns it, jetpump_solver goes on to line 168
ResidualTraverse ==
    /\ pc = "traverse"
    /\ LET prs_ray == top_down_press(well.pwh, sv.qoil_std, sv.prop_tm, well.jetpump_vd)
           residual == residual_of(sv.pdi_jp, prs_ray)
       IN  /\ sv' = [sv EXCEPT !.traverse_qoil = sv.qoil_std, !.traverse_prop = sv.prop_tm,
                               !.prs_ray = prs_ray, !.residual = residual]
           /\ IF call = "system_residual"
              THEN /\ out' = [residual |-> residual] /\ pc' = "done"
              ELSE /\ out' = out /\ pc' = "branch"
    /\ UNCHANGED <<inputs, te, tm, di, th, err>>

\* jetpump_solver, lines 168-174: with a retry at a negative residual
solver_next_retry(residual) == IF residual >= 0 THEN "done" ELSE "residual"

\* jetpump_solver, lines 168-174: both branches only assign locals
\* (status_te, status_of; rawr) and fall through to the end of the function
solver_next(residual) == "done"

\* jetpump_solver, lines 168-174: the branch on the sign and the implicit
\* return of None
SolverBranch ==
    /\ pc = "branch"
    /\ pc' = solver_next(sv.residual)
    /\ sv' = IF sv.residual >= 0 THEN [sv EXCEPT !.status_te = "Choked", !.status_of = "Flows"]
                                 ELSE [sv EXCEPT !.rawr = 1]
    /\ out' = IF pc' = "done" THEN [result |-> "None"] ELSE out
    /\ UNCHANGED <<inputs, te, tm, di, th, err>>

Next ==
    \/ TeeLastStep
    \/ TeeLastFin
    \/ TmStart
    \/ TmSeedZero
    \/ TmSeedOne
    \/ TmSecant
    \/ TmIterate
    \/ TmExit
    \/ TmLookup
    \/ SynStart
    \/ SynIterate
    \/ SynExit
    \/ SearchStart
    \/ TeeLastReturn
    \/ DeteZeroStep
    \/ DeteZeroFin
    \/ DeteGradZeroStep
    \/ DeteGradZeroFin
    \/ DiffuserStart
    \/ DiffuserStep
    \/ DiffuserExit
    \/ DiffuserResolve
    \/ ThroatStart
    \/ ThroatStep
    \/ ThroatExit
    \/ ThroatReturn
    \/ DeteZeroFineStart
    \/ DeteZeroFineStep
    \/ DeteZeroFineFin
    \/ SolverMinimize
    \/ ResidualOverall
    \/ ResidualTraverse
    \/ SolverBranch

Spec == Init /\ [][Next]_vars


(* ------------------------------- claims -------------------------------- *)
TooDeep == "ValueError: object too deep for desired array"
InMinimize == call = "tee_minimize"
\* the secant loop of tee_minimize has been left
LoopLeft == InMinimize /\ (pc \in {"lookup", "done"} \/ (pc = "raised" /\ err # TooDeep))
LastDiff(f) == Abs(f.psu_list[Len(f.psu_list) - 1] - Last(f.psu_list))
NoSignChange(r) == (\A i \in 1..Len(r) : r[i] > 0) \/ (\A i \in 1..Len(r) : r[i] < 0)
AtFloor(r) == Last(r) <= pdec
IsPrefix(a, b) == Len(a) <= Len(b) /\ \A i \in 1..Len(a) : a[i] = b[i]

\* C1: tee_minimize makes at most 10 secant updates; when the tolerance is
\* still unmet after the 10th the loop stops and the call returns the last
\* guess as the suction pressure, raising no error.
C1_CapReturnsLastGuess ==
    /\ tm.n <= TeeIterCap
    /\ Len(tm.psu_list) <= 2 + TeeIterCap
    /\ (InMinimize /\ tm.n = TeeIterCap => pc \in {"lookup", "done"})
    /\ (InMinimize /\ pc = "done" => out.psu = Last(tm.psu_list))

\* C2: a secant step on two equal objective values is caught: no non-finite
\* guess is produced, handed to the next tee_last or kept as a guess.
C2_DegenerateStepGuarded ==
    /\ pc # "nonfinite"
    /\ IsFinite(tm.psu_nxt)
    /\ \A i \in 1..Len(tm.psu_list) : IsFinite(tm.psu_list[i])

\* C3: a zero-crossing lookup on a trace that reached the pressure floor and
\* whose total energy never changes sign raises NoZeroCrossing; it returns
\* no throat-entry pressure, density and velocity.
C3_NoCrossingRaises ==
    /\ (LoopLeft /\ pc # "lookup" /\ AtFloor(tm.pte_ray) /\ NoSignChange(tm.tee_ray))
           => pc = "raised"
    /\ (call = "dete_zero" /\ pc \in {"done", "raised"} /\ AtFloor(te.pte_ray)
            /\ NoSignChange(te.tee_ray))
           => (pc = "raised" /\ err = "NoZeroCrossing")

\* C4: a sonic-targeted search (tee_last, dete_grad_zero) that ends at the
\* pressure floor with the terminal mach number below 1 gives the total
\* energy of the terminal sample as its objective value and raises nothing.
C4_FloorGivesTerminalEnergy ==
    (te.fn \in {"tee_last", "dete_grad_zero"} /\ pc # "search"
        /\ AtFloor(te.pte_ray) /\ Last(te.mach_ray) < MachDen)
    => (te.tee_fin = Last(te.tee_ray) /\ err # TooDeep)

C4_Witness ==
    /\ call = "tee_last"
    /\ pc = "done"
    /\ Len(te.pte_ray) >= 3
    /\ AtFloor(te.pte_ray)
    /\ Last(te.mach_ray) < MachDen
    /\ te.tee_ray[1] # Last(te.tee_ray)
    /\ out.tee_fin = Last(te.tee_ray)

\* C5: a trace is ordered in every state: each throat-entry sample is exactly
\* 50 psi below the one before it, each diffuser sample exactly 100 psi above,
\* the first sample has cumulative expansion energy 0, and a step of a search
\* leaves the samples already in its trace as they are.
TeOrdered ==
    te.fn # "" =>
        /\ te.ese_ray[1] = 0
        /\ \A i \in 2..Len(te.pte_ray) : te.pte_ray[i] = te.pte_ray[i - 1] - 50
DiOrdered ==
    Len(di.pdi_ray) > 0 =>
        /\ di.ese_ray[1] = 0
        /\ \A i \in 2..Len(di.pdi_ray) : di.pdi_ray[i] = di.pdi_ray[i - 1] + 100
TeKept ==
    pc = "search" =>
        /\ IsPrefix(te.pte_ray, te'.pte_ray) /\ IsPrefix(te.vte_ray, te'.vte_ray)
        /\ IsPrefix(te.rho_ray, te'.rho_ray) /\ IsPrefix(te.mach_ray, te'.mach_ray)
        /\ IsPrefix(te.kse_ray, te'.kse_ray) /\ IsPrefix(te.ese_ray, te'.ese_ray)
        /\ IsPrefix(te.tee_ray, te'.tee_ray)
DiKept ==
    pc = "diffuse" =>
        /\ IsPrefix(di.pdi_ray, di'.pdi_ray) /\ IsPrefix(di.vdi_ray, di'.vdi_ray)
        /\ IsPrefix(di.rho_ray, di'.rho_ray) /\ IsPrefix(di.kse_ray, di'.kse_ray)
        /\ IsPrefix(di.ese_ray, di'.ese_ray) /\ IsPrefix(di.dte_ray, di'.dte_ray)
C5_TraceOrdered == [](TeOrdered /\ DiOrdered) /\ [][TeKept /\ DiKept]_vars

C5_Witness ==
    /\ te.fn = "tee_last"
    /\ pc = "search"
    /\ Len(te.pte_ray) >= 4
    /\ te.pte_ray[4] = te.pte_ray[1] - 150

\* C6: the cumulative expansion energy of sample k is the sum of the
\* trapezoid increments of 1/density over the pressure difference of every
\* consecutive pair up to k, and its total energy is its kinetic energy plus
\* that sum.
RECURSIVE ExpansionSum(_, _, _)
ExpansionSum(prs, rho, k) ==
    IF k <= 1 THEN 0
    ELSE ExpansionSum(prs, rho, k - 1)
             + (prs[k] - prs[k - 1]) * ((RhoScale \div rho[k - 1]) + (RhoScale \div rho[k]))
\* the same sum on the scale of field units
RECURSIVE ExpansionSumFine(_, _, _)
ExpansionSumFine(prs, rho, k) ==
    IF k <= 1 THEN 0
    ELSE ExpansionSumFine(prs, rho, k - 1)
             + RDiv((prs[k] - prs[k - 1])
                        * (RDiv(FinePsi, rho[k - 1]) + RDiv(FinePsi, rho[k])), 2)
C6_ExpansionIsSumOfIncrements ==
    /\ \A k \in 1..Len(te.pte_ray) :
           /\ te.ese_ray[k] = IF te.fn = "dete_zero_fine"
                              THEN ExpansionSumFine(te.pte_ray, te.rho_ray, k)
                              ELSE ExpansionSum(te.pte_ray, te.rho_ray, k)
           /\ te.tee_ray[k] = te.kse_ray[k] + te.ese_ray[k]
    /\ \A k \in 1..Len(di.pdi_ray) :
           /\ di.ese_ray[k] = ExpansionSum(di.pdi_ray, di.rho_ray, k)
           /\ di.dte_ray[k] = di.kse_ray[k] + di.ese_ray[k]

C6_Witness ==
    /\ Len(te.pte_ray) >= 4
    /\ te.rho_ray[1] # te.rho_ray[3]
    /\ te.ese_ray[4] = ExpansionSum(te.pte_ray, te.rho_ray, 4)
    /\ te.ese_ray[4] # 3 * te.ese_ray[2]

\* C7 as claimed: no sample below 50 psi is ever appended to a throat-entry
\* trace.
C7_NoSampleBelowDecrement ==
    te.fn # "" => \A i \in 2..Len(te.pte_ray) : te.pte_ray[i] >= pdec

\* C7 as amended: a throat-entry search steps only from a terminal sample
\* above 50 psi, so every appended sample is above 0 psi.
C7_StepsOnlyAboveDecrement ==
    te.fn # "" =>
        \A i \in 2..Len(te.pte_ray) : te.pte_ray[i - 1] > pdec /\ te.pte_ray[i] > 0

C7_Witness ==
    /\ te.fn \in {"tee_last", "dete_zero", "dete_grad_zero"}
    /\ Len(te.pte_ray) >= 2
    /\ Last(te.pte_ray) > 0
    /\ Last(te.pte_ray) < pdec

\* C8: once the last sample of a sonic-targeted trace has a mach number of 1
\* or more, no further sample is appended.
C8_StopsAtSonic ==
    [][(pc = "search" /\ te.fn \in {"tee_last", "dete_grad_zero"}
            /\ Last(te.mach_ray) >= MachDen)
       => te'.pte_ray = te.pte_ray]_vars

ExactLast(f) ==
    LET L == Len(f.psu_list)
    IN  (f.tee_list[L - 1] * (f.psu_list[L - 2] - f.psu_list[L - 1]))
            % Abs(f.tee_list[L - 2] - f.tee_list[L - 1]) = 0

C10_ResultsAtLastGuess ==
    LoopLeft =>
        /\ tm.assigned
        /\ tm.pte_ray[1] = Last(tm.psu_list)
        /\ tm.qoil_std = oil_flow(ipr, Last(tm.psu_list))
        /\ pc = "done" =>
               /\ out.psu = Last(tm.psu_list)
               /\ out.qoil_std = oil_flow(ipr, out.psu)

C10_Witness ==
    /\ InMinimize
    /\ pc = "done"
    /\ tm.n >= 2
    /\ out.psu = Last(tm.psu_list)
    /\ out.psu # tm.psu_list[Len(tm.psu_list) - 1]
    /\ out.qoil_std # oil_flow(ipr, tm.psu_list[Len(tm.psu_list) - 1])
    /\ tm.pte_ray[1] = out.psu

\* C11: on the synthetic objective psu - target the secant loop is left after
\* at most 3 secant iterations, with the last guess within the 5 psi
\* tolerance of target, and no guess on the way is non-finite.
C11_SyntheticConverges ==
    call = "tee_minimize_synthetic" =>
        /\ tm.n <= 3
        /\ pc # "nonfinite"
        /\ pc = "syn_left" => Abs(Last(tm.psu_list) - target) <= psu_diff

C11_Witness ==
    /\ call = "tee_minimize_synthetic"
    /\ pc = "syn_left"
    /\ tm.n = 2
    /\ Abs(tm.psu_list[1] - target) > 100
    /\ Last(tm.psu_list) = target

InThroat == call = "throat_discharge"
ThroatLeft == InThroat /\ pc \in {"throat_left", "done"}
ThroatDiff(f) == Abs(f.ptm_list[Len(f.ptm_list) - 1] - Last(f.ptm_list))
\* the net momentum with the mixture conditioned at the throat-entry pressure
NetMomentumAtEntry == throat_estimate(th, thr.pte).mom_tot

\* C12: when the net momentum at the throat-entry pressure is zero, the loop
\* body of throat_discharge is never executed and the call returns pte.
C12_BalancedReturnsSeed ==
    (InThroat /\ pc # "start" /\ NetMomentumAtEntry = 0) =>
        /\ th.n = 0
        /\ th.ptm_list = <<thr.pte, thr.pte>>
        /\ pc = "done" => out.ptm = thr.pte

C12_Witness ==
    /\ InThroat
    /\ pc = "done"
    /\ NetMomentumAtEntry = 0
    /\ th.mom_nz > 0
    /\ th.mom_te > 0
    /\ out.ptm = thr.pte

\* C13 as claimed: the loop of throat_discharge makes at most 10 passes; left
\* before the 10th, the last two estimates differ by less than 5 psi; either
\* way the last estimate appended is returned and nothing is raised.
C13_ThroatExitBelowTolerance ==
    InThroat =>
        /\ th.n <= ThroatIterCap
        /\ pc # "raised"
        /\ (ThroatLeft /\ th.n < ThroatIterCap) => ThroatDiff(th) < ptm_diff
        /\ pc = "done" => out.ptm = Last(th.ptm_list)

\* C13 as amended: left before the 10th pass, the last two estimates differ by
\* at most 5 psi.
C13_ThroatExitWithinTolerance ==
    InThroat =>
        /\ th.n <= ThroatIterCap
        /\ Len(th.ptm_list) <= 2 + ThroatIterCap
        /\ pc # "raised"
        /\ (ThroatLeft /\ th.n < ThroatIterCap) => ThroatDiff(th) <= ptm_diff
        /\ pc = "done" => out.ptm = Last(th.ptm_list)

\* the pressure drop of the first estimate was exact on the fixed-point grid
ExactFirstDrop == NetMomentumAtEntry % (MomDen * MomPsi * th.ath) = 0

C13_Witness ==
    /\ InThroat
    /\ pc = "done"
    /\ th.n = 0
    /\ ThroatDiff(th) = ptm_diff
    /\ ExactFirstDrop
    /\ out.ptm = Last(th.ptm_list)

\* the cap of throat_discharge is reached with the tolerance unmet, and the
\* last estimate is returned
C13_CapReached ==
    /\ InThroat
    /\ pc = "done"
    /\ th.n = ThroatIterCap
    /\ ThroatDiff(th) > ptm_diff
    /\ out.ptm = Last(th.ptm_list)

InDiffuser == call = "diffuser_discharge"
DiffuserLeft == InDiffuser /\ pc \in {"resolve", "done", "raised"}

\* C14: diffuser_discharge takes at most 15 steps; every sample but the last
\* has negative total energy, so the search stops at the first non-negative
\* one or at the cap; at the cap nothing is raised and a pressure is returned.
C14_DiffuserCapped ==
    (InDiffuser /\ pc # "start") =>
        /\ di.n <= DiffIterCap
        /\ Len(di.pdi_ray) = di.n + 1
        /\ \A i \in 1..(Len(di.dte_ray) - 1) : di.dte_ray[i] < 0
        /\ (DiffuserLeft /\ di.n < DiffIterCap) => Last(di.dte_ray) >= 0
        /\ (DiffuserLeft /\ di.n = DiffIterCap) => pc # "raised"
        /\ (pc = "done" /\ di.n = DiffIterCap) => out.pdi = diffuser_resolve(di)

C14_Witness ==
    /\ InDiffuser
    /\ pc = "done"
    /\ di.n = DiffIterCap
    /\ Last(di.dte_ray) < 0
    /\ out.pdi = Last(di.pdi_ray)

\* what diffuser_discharge gives for the friction factor k on the inputs of
\* the run: whether it returns, and the pressure it returns
DiffuserReturns(k) == Len(diffuser_run(diffuser_start(k)).dte_ray) > 1
DiffuserPdi(k) == diffuser_resolve(diffuser_run(diffuser_start(k)))

\* C15 as claimed: on the same inputs a larger diffuser friction factor never
\* gives a smaller discharge pressure.
C15_FrictionNeverLowersDischarge ==
    (InDiffuser /\ pc = "done") =>
        \A k \in KdiSet : (k > kdi /\ DiffuserReturns(k)) => DiffuserPdi(k) >= out.pdi

\* C15 as amended: on the same inputs a larger diffuser friction factor never
\* gives a larger discharge pressure.
C15_FrictionNeverRaisesDischarge ==
    (InDiffuser /\ pc = "done") =>
        /\ out.pdi = DiffuserPdi(kdi)
        /\ \A k \in KdiSet : (k > kdi /\ DiffuserReturns(k)) => DiffuserPdi(k) <= out.pdi

C15_Witness ==
    /\ InDiffuser
    /\ pc = "done"
    /\ kdi = 0
    /\ di.n >= 3
    /\ DiffuserReturns(1)
    /\ DiffuserPdi(1) < out.pdi - pinc
    /\ ~DiffuserReturns(2)

InResidual == call \in {"system_residual", "jetpump_solver"}

\* C16: system_residual returns the discharge pressure of the jet-pump model
\* at the trial suction pressure minus the last element of the pressure
\* profile of the outflow traverse, the traverse having been given the oil
\* rate and the mixture of that same jet-pump evaluation.
C16_ResidualIsDifference ==
    (call = "system_residual" /\ pc = "done") =>
        /\ sv.residual_psu = psu_in
        /\ sv.traverse_qoil = sv.qoil_std
        /\ sv.traverse_prop = sv.prop_tm
        /\ sv.prs_ray = top_down_press(well.pwh, sv.qoil_std, sv.prop_tm, well.jetpump_vd)
        /\ out.residual = sv.pdi_jp - sv.prs_ray[Len(sv.prs_ray)]

\* C16 witness: a direct call has returned a negative residual, the required
\* discharge pressure at the pump lying above the wellhead pressure
C16_Witness ==
    /\ call = "system_residual" /\ pc = "done"
    /\ Len(sv.prs_ray) = 3
    /\ sv.prs_ray[3] > sv.prs_ray[1]
    /\ out.residual < 0

C20_WitnessFlows ==
    /\ call = "jetpump_solver" /\ pc = "done"
    /\ sv.residual >= 0 /\ sv.status_te = "Choked"

\* a throat-entry search is in progress or has ended
InSearch == te.fn \in {"tee_last", "dete_zero", "dete_grad_zero"}

\* the mixture of the run at pressure p, whatever pressure it arrived at
Unconditioned(p) == condition([kind |-> prop.kind, pb |-> prop.pb, p |-> 0], p)

\* sample i of the trace of a search started at psu, from the arguments alone
SamplePte(psu, i) == psu - (i - 1) * pdec
SampleRho(psu, i) == rho_mix(Unconditioned(SamplePte(psu, i)))
SampleVte(psu, i) ==
    velocity(insitu_volm_flow(Unconditioned(SamplePte(psu, i)), oil_flow(ipr, psu)), ate)

\* C17: the trace of a throat-entry search is a function of the arguments of
\* the call alone: every sample is what the suction pressure, the inflow, the
\* mixture model, ken and ate give, whichever call of a run it is (direct, a
\* seed or an iteration of the minimizer) and whatever pressure the mixture
\* was left conditioned at; two runs on the same inputs hence build the same
\* trace.
C17_TraceFromArgumentsAlone ==
    InSearch =>
        /\ te.qoil_std = oil_flow(ipr, te.psu)
        /\ \A i \in 1..Len(te.pte_ray) :
              /\ te.pte_ray[i] = SamplePte(te.psu, i)
              /\ te.rho_ray[i] = SampleRho(te.psu, i)
              /\ te.vte_ray[i] = SampleVte(te.psu, i)
              /\ te.kse_ray[i] = enterance_ke(ken, SampleVte(te.psu, i))
              /\ te.ese_ray[i] =
                    IF i = 1 THEN 0
                    ELSE te.ese_ray[i - 1]
                         + incremental_ee(<<SamplePte(te.psu, i - 1), SamplePte(te.psu, i)>>,
                                          <<SampleRho(te.psu, i - 1), SampleRho(te.psu, i)>>)
              /\ te.tee_ray[i] = te.kse_ray[i] + te.ese_ray[i]
        /\ Len(te.rho_ray) = Len(te.pte_ray) /\ Len(te.vte_ray) = Len(te.pte_ray)
        /\ Len(te.kse_ray) = Len(te.pte_ray) /\ Len(te.ese_ray) = Len(te.pte_ray)
        /\ Len(te.tee_ray) = Len(te.pte_ray)

\* C17 witness: a search called by an iteration of the minimizer, after the
\* two seed calls and at least one earlier iteration, has built a trace of
\* three samples or more on a mixture whose density changes along it
C17_Witness ==
    /\ te.fn = "tee_last" /\ te.site = "iter"
    /\ tm.n >= 1
    /\ Len(te.pte_ray) >= 3
    /\ te.rho_ray[1] # Last(te.rho_ray)

\* C17, a direct call: the mixture arrived conditioned at another pressure
\* than the suction pressure, in another pressure band
C17_WitnessLeft ==
    /\ call = "dete_zero" /\ te.site = "direct"
    /\ prop.p # te.psu
    /\ rho_mix(prop) # te.rho_ray[1]

NonDecreasing(s) == \A i \in 1..(Len(s) - 1) : s[i] <= s[i + 1]

\* the abscissa tee_zero hands to np.interp: the total energies of the
\* samples the mask keeps, reversed
Abscissa(f) == Flip(Select(f.tee_ray, tee_positive_slope(f.pte_ray, f.tee_ray)))

\* C18: whenever the zero-crossing lookup of a throat-entry search has been
\* taken, the masked and reversed total-energy sequence it interpolated on
\* is non-decreasing.
C18_AbscissaOrdered ==
    (call = "dete_zero" /\ pc = "done") => NonDecreasing(Abscissa(te))

\* the scenario: 800 psig, 0.01 ft2, ken 0.1, a fixed 500 bopd, 50 lbm/ft3
Scenario ==
    /\ call = "dete_zero_fine"
    /\ psu_in = 800 /\ ate = 100 /\ ken = 1
    /\ ipr.kind = "fixed" /\ ipr.q = 500
    /\ prop.kind = "liquid"

\* C19: a dete_zero search takes finitely many 50-psi steps: its samples are
\* pdec apart from the suction pressure down and a step is only taken to a
\* pressure above zero, so there are fewer than psu / pdec of them; the
\* scenario ends by returning a throat-entry pressure strictly between 200
\* and 800 psig.
C19_SearchTerminates ==
    /\ te.fn \in {"dete_zero", "dete_zero_fine"} =>
          /\ \A i \in 1..Len(te.pte_ray) : te.pte_ray[i] = te.psu - (i - 1) * pdec
          /\ Len(te.pte_ray) = 1 \/ (Len(te.pte_ray) - 1) * pdec < te.psu
          /\ pc = "search" => ENABLED (DeteZeroStep \/ DeteZeroFin \/ DeteZeroFineStep
                                       \/ DeteZeroFineFin)
    /\ (Scenario /\ pc \notin {"start", "search"}) =>
          /\ pc = "done"
          /\ out.pte > 200 /\ out.pte < 800

\* C19 witness: the scenario has returned, after one step of the search
C19_Witness ==
    /\ Scenario /\ pc = "done"
    /\ Len(te.pte_ray) = 2
    /\ te.tee_ray[1] > FineEnergy /\ te.tee_ray[2] < 0

\* C19, the floor: a search has stepped down to the floor with its total
\* energy still above the threshold, and stops there
C19_FloorReached ==
    /\ te.fn = "dete_zero"
    /\ Len(te.pte_ray) > 2 /\ Last(te.pte_ray) <= pdec
    /\ Last(te.tee_ray) * EnergyUnit > 1

\* a step of a throat-entry search: one sample is appended to the trace
SearchAppends == te.fn # "" /\ te'.fn = te.fn /\ Len(te'.pte_ray) = Len(te.pte_ray) + 1

\* C21: every step of a throat-entry search is taken from a terminal pressure
\* above the 50 psi decrement, to that pressure less the decrement, and the
\* mixture is re-conditioned at the new pressure, which is above 0 psig.
C21_StepsStayPositive ==
    [][SearchAppends =>
          /\ Last(te.pte_ray) > pdec
          /\ Last(te'.pte_ray) = Last(te.pte_ray) - pdec
          /\ te'.prop.p = Last(te'.pte_ray)
          /\ te'.prop.p > 0]_vars

\* C21 witness: a sonic-targeted search started above the decrement has
\* taken its last possible step and conditioned the mixture below 50 psig
C21_Witness ==
    /\ te.fn = "dete_grad_zero"
    /\ Len(te.pte_ray) >= 3
    /\ te.prop.p = Last(te.pte_ray)
    /\ te.prop.p > 0 /\ te.prop.p < pdec

\* C22: in every call of tee_minimize the first test of the secant loop
\* passes, the seeds being 100 psi apart against a tolerance of 5, so the
\* lookup after the loop is only reached after at least one pass has bound
\* the oil rate and the trace arrays; no read of an unbound local occurs.
C22_LoopBodyRunsFirst ==
    call = "tee_minimize" =>
        /\ (pc = "while" /\ tm.n = 0) =>
               /\ LastDiff(tm) = SeedOffTwo - SeedOffOne
               /\ tm_guard(tm)
               /\ ~tm.assigned
        /\ pc \in {"lookup", "done"} =>
               /\ tm.n >= 1
               /\ tm.assigned
               /\ Len(tm.pte_ray) >= 1
        /\ err # "UnboundLocalError"

\* C22 witness: the loop was left after a single pass and the lookup has
\* read the rate and the arrays that pass bound
C22_Witness ==
    /\ call = "tee_minimize"
    /\ pc = "done"
    /\ tm.n = 1
    /\ tm.assigned
    /\ out.qoil_std = tm.qoil_std

\* C23: whenever diffuser_discharge returns, at least one step and at most
\* 15 were taken, the highest sampled pressure is ptm + 100 * n, and the
\* returned discharge pressure lies between ptm and that pressure; at the cap
\* with the total energy still negative it is that pressure.
C23_DischargeWithinSamples ==
    (InDiffuser /\ pc = "done") =>
        /\ di.n >= 1 /\ di.n <= DiffIterCap
        /\ di.pdi_ray[1] = psu_in
        /\ Last(di.pdi_ray) = psu_in + pinc * di.n
        /\ out.pdi >= psu_in
        /\ out.pdi <= psu_in + pinc * di.n
        /\ (di.n = DiffIterCap /\ Last(di.dte_ray) < 0) => out.pdi = psu_in + pinc * di.n

\* C23 witness: a call started above 0 psig has returned, after two steps or
\* more, a pressure strictly inside the last step
C23_Witness ==
    /\ InDiffuser
    /\ pc = "done"
    /\ psu_in > 0
    /\ di.n >= 2
    /\ out.pdi > psu_in + pinc * (di.n - 1)
    /\ out.pdi < psu_in + pinc * di.n

\* C24: the trace that tee_minimize hands to the zero-crossing lookup after
\* the secant loop has two samples or more.
C24_LookupTraceHasTwoSamples ==
    (call = "tee_minimize" /\ pc = "lookup") => Len(tm.tee_ray) >= 2

====
